---- MODULE Spec2Model ----
(***************************************************************************)
(* State-machine model of the session / profile synchronisation core of    *)
(* user-login-dashboard: pages/Index.tsx (landing page and its redirect    *)
(* effect), pages/Dashboard.tsx (profile fetch effect, logout, profile     *)
(* update callback) and components/ProfileForm.tsx (edit dialog).          *)
(*                                                                         *)
(* Scheduling is React's: one event (auth change, promise resolution,      *)
(* click) is handled to completion, including the re-render and the        *)
(* effects it triggers, before the next event.  Each action below is one   *)
(* such event.  Awaited calls (profile select, profile update, signOut)    *)
(* are requests in flight that resolve in a later event, in any order.     *)
(* State setters of an unmounted component instance are no-ops, so a       *)
(* request carries `live`: whether the instance that issued it is still    *)
(* mounted.                                                                *)
(***************************************************************************)
EXTENDS Naturals, Sequences, FiniteSets

\* ---------------------------------------------------------------- bounds
MaxInFlight == 2   \* awaited calls (select, update, signOut) in flight at once
MaxClock == 1      \* readings of the client clock: 0..MaxClock

\* ------------------------------------------------------------ value sets
Users == {"u1", "u2"}
None == "none"                  \* user === null
Null == "null"                  \* a null column
Fields == {"first_name", "last_name", "email"}
\* what a change event can carry for the input named `name`
\* (last_name goes through the same handler as first_name and is left untyped)
Typed(name) ==
    IF name = "email" THEN {"x@mail"} ELSE IF name = "first_name" THEN {"Bob"} ELSE {}
Views == {"index", "dashboard"}            \* "/", "/dashboard"
Outcomes == {"ok", "error", "throw"}       \* { data }, { error }, rejected promise

NoProfile ==
    [id |-> None, first_name |-> Null, last_name |-> Null, email |-> Null, updated_at |-> 0]

VARIABLES
    authLoading,  \* useAuthContext().loading: the session store is Pending
    user,         \* useAuthContext().user: the id of the session's user, or None
    view,         \* the route that is mounted
    profile,      \* Dashboard: useState<UserProfile | null>(null)
    loading,      \* Dashboard: useState(true)
    fetches,      \* profile selects in flight: [uid, live]
    isOpen,       \* ProfileForm: useState(false)
    formLoading,  \* ProfileForm: loading, useState(false)
    formData,     \* ProfileForm: formData
    updates,      \* profile updates in flight: [id, patch, own]; own (history):
                  \* the row was the session user's when the update was submitted
    signOuts,     \* signOut calls in flight
    store,        \* the profiles table: user id -> row
    emitted,      \* toasts emitted by the last event, in order
    navigated     \* navigate() targets called by the last event, in order

vars == <<authLoading, user, view, profile, loading, fetches, isOpen, formLoading,
          formData, updates, signOuts, store, emitted, navigated>>

Toast(kind, message) == [kind |-> kind, message |-> message]

\* ------------------------------------------------------------- Index.tsx
\* IndexEffect navigating to the landing page itself
IndexEffectToSelf(al, u) ==
    IF ~al /\ u # None THEN <<"index">> ELSE <<>>

\* IndexEffect with the test on loading inverted
IndexEffectWhileLoading(al, u) ==
    IF al /\ u # None THEN <<"dashboard">> ELSE <<>>

\* useEffect: if (!loading && user) navigate('/dashboard')
IndexEffect(al, u) ==
    IF ~al /\ u # None THEN <<"dashboard">> ELSE <<>>

\* IndexRender without the loading screen
IndexRenderNoWait(al) == "Landing"

\* if (loading) return <Loading...>; else the landing page
IndexRender(al) == IF al THEN "Loading" ELSE "Landing"

\* navigate() calls made by the effects of the page mounted at `target`:
\* only Index has an effect that navigates.
GuardNavs(target, al, u) ==
    IF target = "index" THEN IndexEffect(al, u) ELSE <<>>

\* The route mounted once the effects of the page at `target` have run.
Route(target, al, u) ==
    LET navs == GuardNavs(target, al, u)
    IN  IF navs # <<>> THEN navs[Len(navs)] ELSE target

\* --------------------------------------------------------- Dashboard.tsx
\* fetchProfile: if (user) { await supabase.from('profiles').select... }
FetchProfile(u) ==
    IF u # None THEN {[uid |-> u, live |-> TRUE]} ELSE {}

\* if (loading) return <Loading...>; else the dashboard
DashboardRender(l) == IF l THEN "Loading" ELSE "Dashboard"

\* {profile && <ProfileForm .../>} below the loading return
FormMounted(v, l, p) == v = "dashboard" /\ ~l /\ p # NoProfile

\* ------------------------------------------------------- ProfileForm.tsx
OrEmpty(x) == IF x = Null \/ x = "" THEN "" ELSE x     \* x || ''

\* useState({ first_name: profile.first_name || '', ... })
InitialFormData(p) ==
    [first_name |-> OrEmpty(p.first_name),
     last_name |-> OrEmpty(p.last_name),
     email |-> OrEmpty(p.email)]

UnmountedFormData == [first_name |-> "", last_name |-> "", email |-> ""]

\* UpdatePayload sending the whole form, email included
UpdatePayloadWithEmail(fd, now) ==
    [first_name |-> fd.first_name, last_name |-> fd.last_name, email |-> fd.email,
     updated_at |-> now]

\* the object passed to .update(...)
UpdatePayload(fd, now) ==
    [first_name |-> fd.first_name, last_name |-> fd.last_name, updated_at |-> now]

\* the store applies the columns the payload names to the row
ApplyPatch(row, patch) ==
    [f \in DOMAIN row |-> IF f \in DOMAIN patch THEN patch[f] ELSE row[f]]

\* Requests in flight.  `live`: the component instance that made the request
\* is still mounted.  Requests are kept as a set: two selects of one instance
\* for the same user are kept as one, and so are the selects of instances
\* that are gone, which can only still toast.
DeadFetches(reqs) ==
    IF reqs = {} THEN {} ELSE {[uid |-> None, live |-> FALSE]}

\* An update whose ProfileForm is unmounted reaches no component any more.
\* It is followed no further: the store has either written it by then or
\* never does.
Orphaned(st, reqs) ==
    {st} \cup {[st EXCEPT ![r.id] = ApplyPatch(st[r.id], r.patch)] : r \in reqs}
InFlight(fs, us, so) == Cardinality(fs) + Cardinality(us) + so

\* ------------------------------------------------------------------ Init
Init ==
    /\ authLoading = TRUE
    /\ user = None
    /\ view \in Views
    /\ profile = NoProfile
    /\ loading = TRUE
    /\ fetches = {}
    /\ isOpen = FALSE
    /\ formLoading = FALSE
    /\ formData = UnmountedFormData
    /\ updates = {}
    /\ signOuts = 0
    /\ store = [u \in Users |->
                  [id |-> u,
                   first_name |-> IF u = "u1" THEN Null ELSE "Bob",
                   last_name |-> Null,
                   email |-> IF u = "u1" THEN "u1@mail" ELSE "u2@mail",
                   updated_at |-> 0]]
    /\ emitted = <<>>
    /\ navigated = <<>>

\* ------------------------------------------------- rendering after an event
\* The session store now holds (al2, u2) and the router is asked for `target`
\* (the current route when only the session changed); `changed` says that the
\* user reference changed, `pre` are the navigate() calls already made by the
\* handler.  Runs the page effects: Index's redirect, Dashboard's fetchProfile
\* (on mount and whenever `user` changes).  A Dashboard that is unmounted, or
\* replaced by a new instance, loses its state and the state of its
\* ProfileForm; its requests stay in flight but are no longer live.
Arrive(target, al2, u2, changed, pre) ==
    LET v2 == Route(target, al2, u2)
        stays == view = "dashboard" /\ target = "dashboard"
    IN  /\ authLoading' = al2
        /\ user' = u2
        /\ view' = v2
        /\ navigated' = pre \o GuardNavs(target, al2, u2)
        /\ IF stays
           THEN /\ fetches' = fetches \cup (IF changed THEN FetchProfile(u2) ELSE {})
                /\ UNCHANGED <<profile, loading, isOpen, formLoading, formData, updates,
                               store>>
           ELSE /\ fetches' = DeadFetches(fetches) \cup
                        (IF v2 = "dashboard" THEN FetchProfile(u2) ELSE {})
                /\ updates' = {}
                /\ store' \in Orphaned(store, updates)
                /\ profile' = NoProfile
                /\ loading' = TRUE
                /\ isOpen' = FALSE
                /\ formLoading' = FALSE
                /\ formData' = UnmountedFormData
        /\ InFlight(fetches', updates', signOuts') <= MaxInFlight

\* ---------------------------------------------------------- session store
\* The identity provider reports its initial state: Pending -> Settled.
AuthSettle(u) ==
    /\ authLoading
    /\ UNCHANGED signOuts
    /\ emitted' = <<>>
    /\ Arrive(view, FALSE, u, u # None, <<>>)

\* The session reference changes: sign-in, expiry (u = None), token refresh
\* or another identity (u # None).
AuthChange(u) ==
    /\ ~authLoading
    /\ u # None \/ user # None
    /\ UNCHANGED signOuts
    /\ emitted' = <<>>
    /\ Arrive(view, FALSE, u, TRUE, <<>>)

\* The visitor follows a link or the browser history to another route.
Visit(v) ==
    /\ v # view
    /\ UNCHANGED signOuts
    /\ emitted' = <<>>
    /\ Arrive(v, authLoading, user, FALSE, <<>>)

\* --------------------------------------------------------- Dashboard.tsx
\* StillInFlight retrying a select that returned an error
StillInFlightRetry(f, outcome) ==
    IF outcome = "error" THEN fetches ELSE fetches \ {f}

\* The selects in flight once f has resolved: none is reissued, whatever the
\* outcome.
StillInFlight(f, outcome) == fetches \ {f}

\* The awaited select of fetchProfile resolves.  The row is read from the
\* store as the response is delivered.  `error`: toast and no profile;
\* `throw`: the catch only logs; finally: setLoading(false).  There is no
\* check that `user` is still the user the select was made for.
FetchDone(f, outcome) ==
    /\ f \in fetches
    /\ fetches' = StillInFlight(f, outcome)
    /\ emitted' = IF outcome = "error"
                  THEN <<Toast("error", "Failed to load profile data")>>
                  ELSE <<>>
    /\ navigated' = <<>>
    /\ IF f.live
       THEN LET p2 == IF outcome = "ok" THEN store[f.uid] ELSE profile
            IN  /\ profile' = p2
                /\ loading' = FALSE
                /\ formData' = IF FormMounted(view, loading, profile)
                               THEN formData
                               ELSE IF p2 # NoProfile THEN InitialFormData(p2)
                               ELSE UnmountedFormData
       ELSE UNCHANGED <<profile, loading, formData>>
    /\ UNCHANGED <<authLoading, user, view, isOpen, formLoading, updates, signOuts,
                   store>>

\* handleProfileUpdate: setProfile(updatedProfile)
HandleProfileUpdate(p, updatedProfile) == updatedProfile

\* handleLogout, up to the await: the Logout and Sign Out buttons are part of
\* the dashboard proper, which is rendered once loading is false.
LogoutClick ==
    /\ view = "dashboard"
    /\ DashboardRender(loading) = "Dashboard"
    /\ InFlight(fetches, updates, signOuts) < MaxInFlight
    /\ signOuts' = signOuts + 1
    /\ emitted' = <<>>
    /\ navigated' = <<>>
    /\ UNCHANGED <<authLoading, user, view, profile, loading, fetches, isOpen,
                   formLoading, formData, updates, store>>

\* LogoutNavs navigating whatever signOut reported
LogoutNavsAlways(outcome) == <<"index">>

\* navigate() calls of handleLogout once signOut has resolved
LogoutNavs(outcome) == IF outcome = "ok" THEN <<"index">> ELSE <<>>

\* toasts of handleLogout once signOut has resolved
LogoutToasts(outcome) ==
    IF outcome = "ok" THEN <<Toast("success", "Signed out successfully")>>
    ELSE IF outcome = "error" THEN <<Toast("error", "Failed to sign out")>>
    ELSE <<Toast("error", "An unexpected error occurred")>>

\* handleLogout, from the await on.  A signOut that succeeds has ended the
\* session at the identity provider, which the session store reports before
\* the awaited promise resolves.
SignOutDone(outcome) ==
    /\ signOuts > 0
    /\ signOuts' = signOuts - 1
    /\ emitted' = LogoutToasts(outcome)
    /\ IF outcome = "ok"
       THEN Arrive("index", authLoading, None, user # None, LogoutNavs(outcome))
       ELSE /\ navigated' = LogoutNavs(outcome)
            /\ UNCHANGED <<authLoading, user, view, profile, loading, fetches, isOpen,
                           formLoading, formData, updates, store>>

\* ------------------------------------------------------- ProfileForm.tsx
\* the Edit Profile button: setIsOpen(true)
OpenDialog ==
    /\ FormMounted(view, loading, profile)
    /\ ~isOpen
    /\ isOpen' = TRUE
    /\ emitted' = <<>>
    /\ navigated' = <<>>
    /\ UNCHANGED <<authLoading, user, view, profile, loading, fetches, formLoading,
                   formData, updates, signOuts, store>>

\* the Cancel button, or the dialog's onOpenChange(false): setIsOpen(false).
\* Neither is disabled while a submit is in flight.
Cancel ==
    /\ FormMounted(view, loading, profile)
    /\ isOpen
    /\ isOpen' = FALSE
    /\ emitted' = <<>>
    /\ navigated' = <<>>
    /\ UNCHANGED <<authLoading, user, view, profile, loading, fetches, formLoading,
                   formData, updates, signOuts, store>>

\* handleInputChange: setFormData(prev => ({ ...prev, [name]: value }))
HandleInputChange(prev, name, value) == [prev EXCEPT ![name] = value]

\* a change event of an input of the open dialog
InputChange(name, value) ==
    /\ FormMounted(view, loading, profile)
    /\ isOpen
    /\ formData' = HandleInputChange(formData, name, value)
    /\ formData' # formData
    /\ emitted' = <<>>
    /\ navigated' = <<>>
    /\ UNCHANGED <<authLoading, user, view, profile, loading, fetches, isOpen,
                   formLoading, updates, signOuts, store>>

\* SaveDisabled with a Save button that is never disabled
SaveNeverDisabled(l) == FALSE

\* <Button type="submit" disabled={loading}>: the form's only submit button,
\* so a disabled one also blocks the implicit submission by the Enter key.
SaveDisabled(l) == l

\* handleSubmit, up to the await: the Save button is disabled while loading.
\* `now` is what the client clock reads.
Submit(now) ==
    /\ FormMounted(view, loading, profile)
    /\ isOpen
    /\ ~SaveDisabled(formLoading)
    /\ InFlight(fetches, updates, signOuts) < MaxInFlight
    /\ formLoading' = TRUE
    /\ updates' = updates \cup {[id |-> profile.id,
                                  patch |-> UpdatePayload(formData, now),
                                  own |-> profile.id = user]}
    /\ emitted' = <<>>
    /\ navigated' = <<>>
    /\ UNCHANGED <<authLoading, user, view, profile, loading, fetches, isOpen,
                   formData, signOuts, store>>

\* toasts of handleSubmit once the update has resolved
SubmitToasts(outcome) ==
    IF outcome = "ok" THEN <<Toast("success", "Profile updated successfully!")>>
    ELSE IF outcome = "error" THEN <<Toast("error", "Failed to update profile")>>
    ELSE <<Toast("error", "An unexpected error occurred")>>

\* handleSubmit, from the await on.  `ok`: the store has written the payload
\* to the row and returns the row; onProfileUpdate(data); setIsOpen(false).
\* finally: setLoading(false).
UpdateDone(r, outcome) ==
    /\ r \in updates
    /\ updates' = updates \ {r}
    /\ emitted' = SubmitToasts(outcome)
    /\ navigated' = <<>>
    /\ LET data == ApplyPatch(store[r.id], r.patch)
       IN  /\ store' = IF outcome = "ok" THEN [store EXCEPT ![r.id] = data] ELSE store
           /\ formLoading' = FALSE
           /\ isOpen' = IF outcome = "ok" THEN FALSE ELSE isOpen
           /\ profile' = IF outcome = "ok"
                         THEN HandleProfileUpdate(profile, data)
                         ELSE profile
    /\ UNCHANGED <<authLoading, user, view, loading, fetches, formData, signOuts>>

\* ------------------------------------------------------------------ Next
Next ==
    \/ \E u \in Users \cup {None} : AuthSettle(u)
    \/ \E u \in Users \cup {None} : AuthChange(u)
    \/ \E v \in Views : Visit(v)
    \/ \E f \in fetches, o \in Outcomes : FetchDone(f, o)
    \/ LogoutClick
    \/ \E o \in Outcomes : SignOutDone(o)
    \/ OpenDialog
    \/ Cancel
    \/ \E name \in Fields : \E value \in Typed(name) : InputChange(name, value)
    \/ \E now \in 0..MaxClock : Submit(now)
    \/ \E r \in updates, o \in Outcomes : UpdateDone(r, o)

Spec == Init /\ [][Next]_vars

\* ================================================================ claims
\* what the mounted page shows
Rendered ==
    IF view = "index" THEN IndexRender(authLoading) ELSE DashboardRender(loading)

\* the step is the resolution of the select f, delivered to a mounted Dashboard
FetchResolves(f) ==
    /\ f \in fetches
    /\ f.live
    /\ fetches' = fetches \ {f}
    /\ UNCHANGED <<user, view>>

\* the step is the resolution of the update r with the outcome o
UpdateResolves(r, o) ==
    /\ r \in updates
    /\ updates' = updates \ {r}
    /\ emitted' = SubmitToasts(o)

\* C1: the result of a profile fetch is applied to the held profile only if
\* no session change has occurred since the fetch was started; the result of
\* a fetch made for an earlier session is dropped.  A fetch is made for the
\* user of the session at its start, so a fetch for another user than the
\* current one is a stale one: its resolution must leave the profile alone.
C1_StaleFetchDropped ==
    [][\A f \in fetches :
          (FetchResolves(f) /\ f.uid # user) => profile' = profile]_vars

\* C2: once the session is Settled+None the controller holds no profile,
\* whatever fetch is still in flight, until a new session arrives.
C2_SignOutClearsProfile ==
    (~authLoading /\ user = None) => profile = NoProfile

\* C3: whenever a profile is held and a session is present, the profile's id
\* is the session's user id.
C3_ProfileIdIsSessionUser ==
    (profile # NoProfile /\ user # None) => profile.id = user

\* C4: a submit that succeeds ends with the held profile carrying the
\* submitted first name and an updated_at greater than the one held before,
\* with the dialog closed and a success toast.
C4_EditRoundTrip ==
    [][\A r \in updates :
          UpdateResolves(r, "ok") =>
              /\ profile'.first_name = r.patch.first_name
              /\ profile'.updated_at > profile.updated_at
              /\ ~isOpen'
              /\ emitted' = <<Toast("success", "Profile updated successfully!")>>]_vars

\* C5: a submit that fails (error result or exception) leaves the dialog
\* open with the draft as it was submitted, emits an error toast and leaves
\* the held profile as it was.
C5_FailedSubmitPreservesDraft ==
    [][\A r \in updates : \A o \in {"error", "throw"} :
          UpdateResolves(r, o) =>
              /\ isOpen'
              /\ ~formLoading'
              /\ formData'.first_name = r.patch.first_name
              /\ formData'.last_name = r.patch.last_name
              /\ emitted'[1].kind = "error"
              /\ profile' = profile]_vars

\* C6: whatever is typed, also into the email field, no update payload
\* carries an email column, and no step changes the email of a stored row.
C6_EmailReadOnly ==
    [][/\ \A r \in updates' : "email" \notin DOMAIN r.patch
       /\ \A u \in Users : store'[u].email = store[u].email]_vars

\* C6 witness: a draft whose email was typed over has been submitted and the
\* update has succeeded.
C6_Witness ==
    /\ formData.email = "x@mail"
    /\ emitted = SubmitToasts("ok")
    /\ profile.first_name = "Bob"

\* C7: the reaction to a session state makes at most one redirect, and
\* evaluating it again for the unchanged state makes none and leaves the
\* view where it is.
C7_IdempotentNavigation ==
    /\ Cardinality({i \in DOMAIN navigated : navigated[i] = "dashboard"}) <= 1
    /\ GuardNavs(view, authLoading, user) = <<>>
    /\ Route(view, authLoading, user) = view

\* C7 witness: the first evaluation has redirected, to the dashboard, which
\* has started its fetch.
C7_Witness ==
    /\ navigated = <<"dashboard">>
    /\ view = "dashboard"
    /\ \E f \in fetches : f.live /\ f.uid = user

\* C8: while the session store is Pending, no event has navigated and the
\* mounted page shows its waiting state.
C8_PendingMakesNoDecision ==
    authLoading => (navigated = <<>> /\ Rendered = "Loading")

\* C8 witness: the landing page is mounted while Pending, with no session
\* known yet.
C8_Witness ==
    /\ authLoading
    /\ user = None
    /\ view = "index"
    /\ IndexRender(authLoading) = "Loading"

\* C9: with the session Settled+None the dashboard is not the mounted view:
\* the guard has redirected to the landing page.
C9_DashboardRedirectsAnonymous ==
    (~authLoading /\ user = None) => view # "dashboard"

\* C10: with the session Settled+Session the landing page is not the mounted
\* view: the guard has redirected to the dashboard, whether the session was
\* there when the store settled or appeared later.
C10_LandingRedirectsSession ==
    (~authLoading /\ user # None) => view # "index"

\* C10 witness: a session is present on the landing page and the guard has
\* mounted a fresh dashboard.
C10_Witness ==
    /\ ~authLoading
    /\ user \in Users
    /\ navigated = <<"dashboard">>
    /\ view = "dashboard"
    /\ loading
    /\ profile = NoProfile

\* the load-failure toast of fetchProfile
LoadFailed == <<Toast("error", "Failed to load profile data")>>

\* C11: a change to a session of another user (or the first session after
\* none) while the dashboard is mounted starts a fetch for the new user in
\* the same step and puts the dashboard in its Loading state, so that the
\* profile of the previous identity is not shown while that fetch is out.
C11_SessionChangeEntersLoading ==
    [][(user' # user /\ user' \in Users /\ ~authLoading' /\ view' = "dashboard") =>
          /\ FetchProfile(user') \subseteq fetches'
          /\ DashboardRender(loading') = "Loading"]_vars

\* C12: a fetch for the current session that succeeds leaves the fetched row
\* as the held profile; one that fails leaves no profile presented, not even
\* one that was held before the fetch started.
C12_FailedFetchShowsNoProfile ==
    [][\A f \in fetches :
          (FetchResolves(f) /\ f.uid = user) =>
              /\ ~loading'
              /\ profile' # profile => profile' = store[f.uid]
              /\ emitted' = LoadFailed => profile' = NoProfile]_vars

\* C13: whenever the dialog goes from closed to open, the draft's first and
\* last name are those of the held profile ('' where null).
C13_OpenInitialisesDraft ==
    [][(~isOpen /\ isOpen') =>
          /\ formData'.first_name = OrEmpty(profile'.first_name)
          /\ formData'.last_name = OrEmpty(profile'.last_name)]_vars

\* the step is a press of Cancel (the dialog closes without a toast, on a
\* dashboard that stays mounted)
CancelStep ==
    /\ isOpen
    /\ ~isOpen'
    /\ emitted' = <<>>
    /\ navigated' = <<>>
    /\ UNCHANGED <<view, user, loading>>

\* C14: cancel closes an open dialog and does nothing else; it is not
\* available while a submit is in flight, so no update is pending or applied
\* on behalf of a cancelled edit.
C14_CancelOnlyFromOpen ==
    [][CancelStep =>
          /\ ~formLoading
          /\ updates = {}
          /\ UNCHANGED <<store, profile, updates, formData>>]_vars

\* C15: updated_at is set by the store only: no update payload carries it,
\* and the updated_at of a stored row never decreases.
C15_UpdatedAtMonotonic ==
    [][/\ \A r \in updates' : "updated_at" \notin DOMAIN r.patch
       /\ \A u \in Users : store'[u].updated_at >= store[u].updated_at]_vars

\* C16: the response of an update is applied to the held profile only under
\* the session the submit was started under: when the session has ended or
\* changed to another identity while the update was in flight, the response
\* that arrives late leaves the held profile as it is.
C16_LateUpdateDropped ==
    [][\A r \in updates :
          (UpdateResolves(r, "ok") /\ r.own /\ r.id # user) => profile' = profile]_vars

\* C17: every profile fetch that fails, by an error result or by an
\* exception, emits an error toast.  The first fetch of a dashboard that
\* resolves with no profile to hold is a failed one.
C17_FetchFailureNotifies ==
    [][\A f \in fetches :
          (FetchResolves(f) /\ profile = NoProfile /\ profile' = NoProfile) =>
              /\ ~loading'
              /\ Len(emitted') = 1
              /\ emitted'[1].kind = "error"]_vars

\* C18: once the session store has settled, the dashboard shows its Loading
\* state only while a fetch of its own is in flight, so that it cannot stay
\* there when every fetch returns, in particular not without a session.
C18_LoadingOnlyWhileFetching ==
    (~authLoading /\ view = "dashboard" /\ DashboardRender(loading) = "Loading") =>
        \E f \in fetches : f.live

\* the selects a step issues
NewFetches == {f \in fetches' \ fetches : f.live}

\* the step is a session-change event of the session store
SessionEvent == \E u \in Users \cup {None} : AuthSettle(u) \/ AuthChange(u)

\* the step mounts a page on a navigation of the visitor
NavigationEvent == \E v \in Views : Visit(v)

\* C19 as stated: a fetch that fails is not reissued, and a fetch is issued
\* only by a session-change event, one per event.
C19_FetchOnlyOnSessionChange ==
    [][/\ emitted' = LoadFailed => Cardinality(fetches') < Cardinality(fetches)
       /\ NewFetches # {} => SessionEvent
       /\ Cardinality(NewFetches) <= 1]_vars

\* C19 as amended: a fetch that fails is not reissued, and a fetch is issued
\* only by a session-change event or by a navigation that mounts the
\* dashboard (its effect runs on mount), one per event.
C19_FetchOnlyOnTrigger ==
    [][/\ emitted' = LoadFailed => Cardinality(fetches') < Cardinality(fetches)
       /\ NewFetches # {} => (SessionEvent \/ NavigationEvent)
       /\ Cardinality(NewFetches) <= 1]_vars

\* C19 witness: the fetch for the current session has failed on a mounted
\* dashboard and no fetch is in flight.
C19_Witness ==
    /\ emitted = LoadFailed
    /\ fetches = {}
    /\ view = "dashboard"
    /\ user \in Users
    /\ ~loading
    /\ profile = NoProfile

\* C20: when signOut resolves, handleLogout either toasts one success and
\* navigates to the landing page, the session having ended, or toasts one
\* error, navigates nowhere and leaves the page, the session and the held
\* profile as they are.
C20_LogoutNavigatesIffSuccess ==
    [][signOuts' < signOuts =>
          \/ /\ emitted' = <<Toast("success", "Signed out successfully")>>
             /\ navigated' = <<"index">>
             /\ user' = None
             /\ view' = "index"
          \/ /\ Len(emitted') = 1
             /\ emitted'[1].kind = "error"
             /\ navigated' = <<>>
             /\ UNCHANGED <<profile, view, user>>]_vars

\* C20 witness: signOut has reported an error on a dashboard that holds a
\* profile.
C20_Witness ==
    /\ emitted = LogoutToasts("error")
    /\ navigated = <<>>
    /\ view = "dashboard"
    /\ profile # NoProfile
    /\ user \in Users

\* C21: at most one update of a ProfileForm is in flight at any time.  An
\* update is issued only from the open dialog with no update in flight, the
\* form then being in its submitting state (loading = true), and while the
\* form is submitting no further update is issued before the first resolves.
C21_OneUpdateInFlight ==
    [][/\ Cardinality(updates') <= 1
       /\ (updates' \ updates # {}) =>
              /\ isOpen
              /\ ~formLoading
              /\ updates = {}
              /\ formLoading'
       /\ formLoading => updates' \subseteq updates]_vars

\* C21 witness: the dialog is open and submitting with its one update in
\* flight, and a further request would still fit the bound on requests.
C21_Witness ==
    /\ FormMounted(view, loading, profile)
    /\ isOpen
    /\ formLoading
    /\ Cardinality(updates) = 1
    /\ InFlight(fetches, updates, signOuts) < MaxInFlight
====
